---- MODULE Spec2Model ----
(***************************************************************************)
(* Model of the social grouping program (social_grouping_program.py) and  *)
(* of the bound analyzer (social_grouping_analyzer.py).                   *)
(*                                                                         *)
(* A Person is a record [nickname, gender]; nicknames are natural numbers *)
(* ordered by <, standing for the strings the program orders by <.        *)
(* Every population has pairwise distinct nicknames.  The gender "M"      *)
(* stands for the program's male label, "F" for the other label.          *)
(* Python's None is the empty tuple, a present value v is <<v>>.          *)
(***************************************************************************)
EXTENDS Integers, Sequences, FiniteSets, TLC

VARIABLES
    people,             \* self.people
    group_size,         \* self.group_size
    num_groups,         \* self.num_groups
    session,            \* outcome of SocialGroupingProgram.__init__
    previous_meetings,  \* self.previous_meetings
    round_history,      \* self.round_history
    current_round,      \* self.current_round
    pc,                 \* "idle", "loop" (inside the search loop), "exit" (loop left)
    caller,             \* who called generate_groups_genetic: "round" or "direct"
    max_iterations,     \* generate_groups_genetic's parameter
    iteration,          \* number of loop iterations performed
    best_groups,        \* local best_groups (None or a partition)
    best_score,         \* local best_score (None stands for float('inf'))
    min_sampled,        \* history: least total_score of the candidates sampled
    late_sample,        \* history: a candidate was sampled after one of score 0
    printed,            \* what print_groups wrote, one record per call
    stats,              \* what the last command wrote, if it was show_statistics
    export,             \* what the last command wrote, if it was save_history
    total_people,       \* SocialGroupingAnalyzer's argument
    analyzer_group_size,\* SocialGroupingAnalyzer's argument
    analyzer,           \* the analyzer object, or the exception of its construction
    scenario_row        \* the row compare_scenarios printed for the two arguments

vars == <<people, group_size, num_groups, session, previous_meetings,
          round_history, current_round, pc, caller, max_iterations, iteration,
          best_groups, best_score, min_sampled, late_sample, printed, stats,
          export, total_people, analyzer_group_size, analyzer, scenario_row>>

sessionVars == <<people, group_size, num_groups, session, previous_meetings,
                 round_history, current_round, pc, caller, max_iterations,
                 iteration, best_groups, best_score, min_sampled, late_sample,
                 printed, stats, export>>

analyzerVars == <<total_people, analyzer_group_size, analyzer, scenario_row>>

(***************************************************************************)
(* Bounds of the model.                                                    *)
(***************************************************************************)
\* rounds started per session
MaxRounds == 2
\* rounds started before a direct call of the search
PriorRounds == 1
\* the largest iteration budget; it also stands for the default budget
MaxIterations == 2
\* analyzer arguments
MaxTotalPeople == 50
MaxGroupSize == 12
MaxNegGroupSize == 3

None == << >>
Some(v) == <<v>>

Abs(x) == IF x < 0 THEN -x ELSE x
Max(a, b) == IF a > b THEN a ELSE b
Min(a, b) == IF a < b THEN a ELSE b

\* Python's // and % on integers (floor division, sign of the divisor), b # 0
PyFloorDiv(a, b) == IF b > 0 THEN a \div b ELSE (-a) \div (-b)
PyMod(a, b) == a - b * PyFloorDiv(a, b)
\* int(a / b): the quotient truncated towards zero, b # 0
PyIntOfQuotient(a, b) ==
    IF (a >= 0) = (b > 0) THEN Abs(a) \div Abs(b) ELSE -(Abs(a) \div Abs(b))

RECURSIVE SumSeq(_)
SumSeq(s) == IF s = << >> THEN 0 ELSE Head(s) + SumSeq(Tail(s))

(***************************************************************************)
(* Person and the populations sessions are constructed with.               *)
(***************************************************************************)
Person(nickname, gender) == [nickname |-> nickname, gender |-> gender]

Configurations ==
    { [people     |-> <<Person(2, "M"), Person(1, "F"), Person(4, "M"), Person(3, "F")>>,
       group_size |-> 2],
      [people     |-> <<Person(1, "M"), Person(3, "F"), Person(2, "F")>>,
       group_size |-> 3],
      [people     |-> <<Person(3, "M"), Person(1, "F"), Person(2, "M")>>,
       group_size |-> 2],
      [people     |-> <<Person(2, "M"), Person(1, "F")>>,
       group_size |-> 2],
      [people     |-> << >>,
       group_size |-> 2],
      [people     |-> <<Person(1, "M"), Person(2, "F")>>,
       group_size |-> 0] }

(***************************************************************************)
(* The meeting ledger.                                                     *)
(***************************************************************************)
\* mutant: the pair is stored in the order met, not in the order of the names
MeetingKey_Unordered(person1, person2) == <<person1, person2>>

\* the tuple add_meetings stores for two nicknames
MeetingKey(person1, person2) ==
    IF person1 < person2 THEN <<person1, person2>> ELSE <<person2, person1>>

GroupMeetings(group) ==
    { MeetingKey(group[i].nickname, group[j].nickname) :
        <<i, j>> \in { ij \in (1..Len(group)) \X (1..Len(group)) : ij[1] < ij[2] } }

add_meetings(meetings, groups) ==
    meetings \cup UNION { GroupMeetings(groups[g]) : g \in 1..Len(groups) }

\* mutant: the key is looked up without sorting the two names
SortedKey_Unsorted(a, b) == <<a, b>>

\* tuple(sorted([a, b]))
SortedKey(a, b) == IF a <= b THEN <<a, b>> ELSE <<b, a>>

get_meeting_count(meetings, person1, person2) ==
    IF SortedKey(person1.nickname, person2.nickname) \in meetings THEN 1 ELSE 0

(***************************************************************************)
(* The partition cost model.                                               *)
(***************************************************************************)
RECURSIVE ScoreFrom(_, _, _, _)
\* the double loop of calculate_group_score, from index pair (i, j) on
ScoreFrom(meetings, group, i, j) ==
    IF i > Len(group) THEN 0
    ELSE IF j > Len(group) THEN ScoreFrom(meetings, group, i + 1, i + 2)
    ELSE get_meeting_count(meetings, group[i], group[j])
         + ScoreFrom(meetings, group, i, j + 1)

calculate_group_score(meetings, group) == ScoreFrom(meetings, group, 1, 2)

\* mutant: the same ideal count for both genders
IdealFemale_SameAsMale(size, ideal_male) == ideal_male

IdealFemale(size, ideal_male) == size - ideal_male

calculate_gender_balance_score(group, size) ==
    LET male_count   == Cardinality({ i \in 1..Len(group) : group[i].gender = "M" })
        female_count == Len(group) - male_count
        ideal_male   == PyFloorDiv(size, 2)
        ideal_female == IdealFemale(size, ideal_male)
    IN  Abs(male_count - ideal_male) + Abs(female_count - ideal_female)

\* the score the search gives a candidate
TotalScore(meetings, groups, size) ==
    SumSeq([g \in 1..Len(groups) |->
              calculate_group_score(meetings, groups[g])
              + calculate_gender_balance_score(groups[g], size) * 2])

(***************************************************************************)
(* The search: candidates.                                                 *)
(***************************************************************************)
\* the outcomes of random.shuffle on a copy of the list
Shuffles(list) ==
    { [i \in 1..Len(list) |-> list[p[i]]] : p \in Permutations(1..Len(list)) }

\* the slices shuffled_people[i*size : i*size + size] for i in range(groups)
SliceGroups(shuffled, groups, size) ==
    [i \in 1..Max(groups, 0) |-> SubSeq(shuffled, (i - 1) * size + 1, i * size)]

Improves(total_score, best) == best = None \/ total_score < best[1]

\* mutant: the loop never leaves early
BreaksOut_Never(total_score) == FALSE

BreaksOut(total_score) == total_score = 0

(***************************************************************************)
(* SocialGroupingProgram.__init__                                          *)
(***************************************************************************)
ConstructionOutcome(list, size) ==
    IF size = 0 THEN "ZeroDivisionError" ELSE "ok"

InitSession(cfg) ==
    /\ people = cfg.people
    /\ group_size = cfg.group_size
    /\ session = ConstructionOutcome(cfg.people, cfg.group_size)
    /\ num_groups = IF cfg.group_size = 0 THEN 0
                    ELSE PyFloorDiv(Len(cfg.people), cfg.group_size)
    /\ previous_meetings = {}
    /\ round_history = << >>
    /\ current_round = 0
    /\ pc = "idle"
    /\ caller = "none"
    /\ max_iterations = 0
    /\ iteration = 0
    /\ best_groups = None
    /\ best_score = None
    /\ min_sampled = None
    /\ late_sample = FALSE
    /\ printed = << >>
    /\ stats = None
    /\ export = None

NoAnalyzer ==
    /\ total_people = 0
    /\ analyzer_group_size = 0
    /\ analyzer = None
    /\ scenario_row = None

Init ==
    /\ \E cfg \in Configurations : InitSession(cfg)
    /\ NoAnalyzer

(***************************************************************************)
(* generate_groups_genetic                                                 *)
(***************************************************************************)
EnterSearch(who, budget) ==
    /\ caller' = who
    /\ max_iterations' = budget
    /\ iteration' = 0
    /\ best_groups' = None
    /\ best_score' = None
    /\ min_sampled' = None
    /\ late_sample' = FALSE
    /\ pc' = IF budget > 0 THEN "loop" ELSE "exit"
    /\ stats' = None
    /\ export' = None

LeaveSearch ==
    /\ caller' = "none"
    /\ max_iterations' = 0
    /\ iteration' = 0
    /\ best_groups' = None
    /\ best_score' = None
    /\ min_sampled' = None
    /\ late_sample' = FALSE
    /\ pc' = "idle"

\* one iteration of the loop
Sample ==
    /\ pc = "loop"
    /\ \E shuffled_people \in Shuffles(people) :
         LET groups      == SliceGroups(shuffled_people, num_groups, group_size)
             total_score == TotalScore(previous_meetings, groups, group_size)
             better      == Improves(total_score, best_score)
             break       == better /\ BreaksOut(total_score)
         IN  /\ best_score' = IF better THEN Some(total_score) ELSE best_score
             /\ best_groups' = IF better THEN Some(groups) ELSE best_groups
             /\ iteration' = iteration + 1
             /\ pc' = IF break \/ iteration + 1 >= max_iterations THEN "exit" ELSE "loop"
             /\ late_sample' = (late_sample \/ min_sampled = Some(0))
             /\ min_sampled' = IF min_sampled = None THEN Some(total_score)
                               ELSE Some(Min(min_sampled[1], total_score))
    /\ UNCHANGED <<people, group_size, num_groups, session, previous_meetings,
                   round_history, current_round, caller, max_iterations, printed,
                   stats, export>>
    /\ UNCHANGED analyzerVars

\* a call of generate_groups_genetic(budget) from outside create_new_round
GenerateDirect ==
    /\ pc = "idle"
    /\ session = "ok"
    /\ \E budget \in 0..MaxIterations : EnterSearch("direct", budget)
    /\ UNCHANGED <<people, group_size, num_groups, session, previous_meetings,
                   round_history, current_round, printed>>
    /\ UNCHANGED analyzerVars

ReturnDirect ==
    /\ pc = "exit"
    /\ caller = "direct"
    /\ LeaveSearch
    /\ UNCHANGED <<people, group_size, num_groups, session, previous_meetings,
                   round_history, current_round, printed, stats, export>>
    /\ UNCHANGED analyzerVars

(***************************************************************************)
(* create_new_round                                                        *)
(***************************************************************************)
\* the increment and the call of the search with the default budget
StartRound(cap) ==
    /\ pc = "idle"
    /\ session = "ok"
    /\ current_round < cap
    /\ current_round' = current_round + 1
    /\ EnterSearch("round", MaxIterations)
    /\ UNCHANGED <<people, group_size, num_groups, session, previous_meetings,
                   round_history, printed>>
    /\ UNCHANGED analyzerVars

\* what print_groups(groups, round_num) writes
print_groups(meetings, groups, round_num, size) ==
    LET total_previous_meetings ==
            SumSeq([g \in 1..Len(groups) |-> calculate_group_score(meetings, groups[g])])
    IN  [round    |-> round_num,
         previous |-> total_previous_meetings,
         new      |-> Len(groups) * PyFloorDiv(size * (size - 1), 2)
                      - total_previous_meetings]

\* the search returned: print, record the meetings, append to the history
FinishRound ==
    /\ pc = "exit"
    /\ caller = "round"
    /\ best_groups # None
    /\ LET groups == best_groups[1]
       IN  /\ printed' = Append(printed,
                  print_groups(previous_meetings, groups, current_round, group_size))
           /\ previous_meetings' = add_meetings(previous_meetings, groups)
           /\ round_history' = Append(round_history, groups)
    /\ LeaveSearch
    /\ UNCHANGED <<people, group_size, num_groups, session, current_round,
                   stats, export>>
    /\ UNCHANGED analyzerVars

\* an exception leaves create_new_round while the search runs
RoundRaises ==
    /\ pc \in {"loop", "exit"}
    /\ caller = "round"
    /\ LeaveSearch
    /\ UNCHANGED <<people, group_size, num_groups, session, previous_meetings,
                   round_history, current_round, printed, stats, export>>
    /\ UNCHANGED analyzerVars

(***************************************************************************)
(* show_statistics and save_history                                        *)
(***************************************************************************)
\* mutant: the difference is not floored at zero
RemainingRounds_NoFloor(theoretical_max, round) == theoretical_max - round

RemainingRounds(theoretical_max, round) == Max(0, theoretical_max - round)

show_statistics ==
    LET n        == Len(people)
        possible == PyFloorDiv(n * (n - 1), 2)
        consumed == num_groups * PyFloorDiv(group_size * (group_size - 1), 2)
    IN  IF possible = 0
        THEN [status |-> "ZeroDivisionError"]
        ELSE IF current_round > 0
        THEN IF consumed = 0
             THEN [status |-> "ZeroDivisionError"]
             ELSE LET theoretical_max == PyFloorDiv(possible, consumed)
                  IN  [status          |-> "ok",
                       round           |-> current_round,
                       recorded        |-> Cardinality(previous_meetings),
                       possible        |-> possible,
                       theoretical_max |-> Some(theoretical_max),
                       remaining       |-> Some(RemainingRounds(theoretical_max, current_round))]
        ELSE [status          |-> "ok",
              round           |-> current_round,
              recorded        |-> Cardinality(previous_meetings),
              possible        |-> possible,
              theoretical_max |-> None,
              remaining       |-> None]

ShowStatistics ==
    /\ pc = "idle"
    /\ session = "ok"
    /\ stats' = Some(show_statistics)
    /\ export' = None
    /\ UNCHANGED <<people, group_size, num_groups, session, previous_meetings,
                   round_history, current_round, pc, caller, max_iterations,
                   iteration, best_groups, best_score, min_sampled, late_sample,
                   printed>>
    /\ UNCHANGED analyzerVars

save_history ==
    [total_people |-> Len(people),
     group_size   |-> group_size,
     rounds       |-> [r \in 1..Len(round_history) |->
                         [round  |-> r,
                          groups |-> [g \in 1..Len(round_history[r]) |->
                                        [i \in 1..Len(round_history[r][g]) |->
                                           round_history[r][g][i].nickname]]]]]

SaveHistory ==
    /\ pc = "idle"
    /\ session = "ok"
    /\ export' = Some(save_history)
    /\ stats' = None
    /\ UNCHANGED <<people, group_size, num_groups, session, previous_meetings,
                   round_history, current_round, pc, caller, max_iterations,
                   iteration, best_groups, best_score, min_sampled, late_sample,
                   printed>>
    /\ UNCHANGED analyzerVars

Next ==
    \/ StartRound(MaxRounds)
    \/ Sample
    \/ FinishRound
    \/ RoundRaises
    \/ ShowStatistics
    \/ SaveHistory

Spec == Init /\ [][Next]_vars

(***************************************************************************)
(* The search called directly, with any budget, after at most PriorRounds *)
(* rounds.                                                                 *)
(***************************************************************************)
NextSearch ==
    \/ StartRound(PriorRounds)
    \/ Sample
    \/ FinishRound
    \/ GenerateDirect
    \/ ReturnDirect

SpecSearch == Init /\ [][NextSearch]_vars

(***************************************************************************)
(* SocialGroupingAnalyzer                                                  *)
(***************************************************************************)
TotalPairs(N) == PyFloorDiv(N * (N - 1), 2)

\* mutant: ordered pairs are counted
PairsPerGroup_NoHalving(n) == n * (n - 1)

PairsPerGroup(n) == PyFloorDiv(n * (n - 1), 2)

MaxPracticalRounds(total_pairs, pairs_per_round) ==
    PyIntOfQuotient(total_pairs, pairs_per_round)

\* _calculate_theoretical_limits, given N, n and num_groups
calculate_theoretical_limits(N, n, groups) ==
    LET total_pairs     == TotalPairs(N)
        pairs_per_group == PairsPerGroup(n)
        pairs_per_round == groups * pairs_per_group
    IN  IF pairs_per_round = 0
        THEN [status |-> "ZeroDivisionError"]
        ELSE [status                 |-> "ok",
              N                      |-> N,
              n                      |-> n,
              num_groups             |-> groups,
              total_pairs            |-> total_pairs,
              pairs_per_group        |-> pairs_per_group,
              pairs_per_round        |-> pairs_per_round,
              \* the quotient total_pairs / pairs_per_round, as a fraction
              max_theoretical_rounds |-> <<total_pairs, pairs_per_round>>,
              max_practical_rounds   |-> MaxPracticalRounds(total_pairs, pairs_per_round)]

\* SocialGroupingAnalyzer(N, n): the object, or the exception raised
SocialGroupingAnalyzer(N, n) ==
    IF n = 0 THEN [status |-> "ZeroDivisionError"]
    ELSE IF PyMod(N, n) # 0 THEN [status |-> "ValueError"]
    ELSE calculate_theoretical_limits(N, n, PyFloorDiv(N, n))

\* the row compare_scenarios prints for one scenario
ScenarioRow(total, group) ==
    LET a == SocialGroupingAnalyzer(total, group)
    IN  IF a.status = "ok"
        THEN [row        |-> "values",
              num_groups |-> a.num_groups,
              max_rounds |-> a.max_practical_rounds,
              total      |-> a.total_pairs,
              rating     |-> IF a.max_practical_rounds >= 4 THEN "excellent"
                             ELSE IF a.max_practical_rounds >= 2 THEN "good"
                             ELSE IF a.max_practical_rounds >= 1 THEN "limited"
                             ELSE "impossible"]
        ELSE IF a.status = "ValueError"
        THEN [row |-> "N/A"]
        ELSE [row |-> "uncaught", error |-> a.status]

InitAnalyzer ==
    /\ InitSession([people |-> << >>, group_size |-> 2])
    /\ total_people \in 0..MaxTotalPeople
    /\ analyzer_group_size \in (-MaxNegGroupSize)..MaxGroupSize
    /\ analyzer = None
    /\ scenario_row = None

ConstructAnalyzer ==
    /\ analyzer = None
    /\ analyzer' = Some(SocialGroupingAnalyzer(total_people, analyzer_group_size))
    /\ UNCHANGED <<total_people, analyzer_group_size, scenario_row>>
    /\ UNCHANGED sessionVars

CompareScenarios ==
    /\ scenario_row = None
    /\ scenario_row' = Some(ScenarioRow(total_people, analyzer_group_size))
    /\ UNCHANGED <<total_people, analyzer_group_size, analyzer>>
    /\ UNCHANGED sessionVars

NextAnalyzer ==
    \/ ConstructAnalyzer
    \/ CompareScenarios

SpecAnalyzer == InitAnalyzer /\ [][NextAnalyzer]_vars

(***************************************************************************)
(* Properties.                                                             *)
(***************************************************************************)
Nicknames == { people[i].nickname : i \in 1..Len(people) }

Members(group) == { group[i].nickname : i \in 1..Len(group) }

\* the pairs a < b of nicknames that share a group of the partition
SharedPairs(groups) ==
    { ab \in Nicknames \X Nicknames :
        /\ ab[1] < ab[2]
        /\ \E g \in 1..Len(groups) :
             ab[1] \in Members(groups[g]) /\ ab[2] \in Members(groups[g]) }

\* the partition has N/k groups of k members each, and every person of the
\* population is at exactly one place of it
IsPartition(groups) ==
    /\ Len(groups) * group_size = Len(people)
    /\ \A g \in 1..Len(groups) : Len(groups[g]) = group_size
    /\ \A g, h \in 1..Len(groups) :
         g # h => Members(groups[g]) \cap Members(groups[h]) = {}
    /\ \A q \in 1..Len(people) :
         Cardinality({ gi \in (1..Len(groups)) \X (1..group_size) :
                         /\ gi[2] <= Len(groups[gi[1]])
                         /\ groups[gi[1]][gi[2]] = people[q] }) = 1

\* C1: a session whose population size is not a multiple of the group size is
\* not constructed, and no round is ever run on it.
C1_IndivisibleSessionIsRejected ==
    (group_size > 0 /\ Len(people) % group_size # 0)
        => (session # "ok" /\ current_round = 0 /\ round_history = << >>)

\* C2: every partition stored in the history has exactly N/k groups of exactly
\* k members, pairwise disjoint, that contain every participant exactly once.
C2_HistoryHoldsPartitions ==
    \A r \in 1..Len(round_history) : IsPartition(round_history[r])

\* C3: no step removes a pair from the ledger or shrinks it; the ledger changes
\* only when a round is committed, and then it becomes the old ledger united
\* with the canonical pairs of participants sharing a group of the committed
\* partition, grows by exactly the number of new meetings reported for the
\* round, and recording the same groups again changes nothing.
C3_CommitAddsExactlyTheSharedPairs ==
    [][ /\ previous_meetings \subseteq previous_meetings'
        /\ Cardinality(previous_meetings') >= Cardinality(previous_meetings)
        /\ Len(round_history') = Len(round_history)
             => previous_meetings' = previous_meetings
        /\ Len(round_history') # Len(round_history)
             => /\ round_history' = Append(round_history, Head(best_groups))
                /\ previous_meetings'
                     = previous_meetings \cup SharedPairs(Head(best_groups))
                /\ Cardinality(previous_meetings')
                     = Cardinality(previous_meetings)
                       + printed'[Len(printed')].new
                /\ add_meetings(previous_meetings', Head(best_groups))
                     = previous_meetings'
      ]_vars

\* C3 witness: a round that added new pairs was followed by a committed round
\* whose groups held pairs already in the ledger.
C3_Witness ==
    /\ Len(printed) >= 2
    /\ Len(round_history) = Len(printed)
    /\ printed[1].new > 0
    /\ printed[2].previous > 0

\* C4: while the search samples, the score of every candidate is 0 exactly
\* when no pair inside any of its groups is in the ledger and every group has
\* floor(k/2) members of the first gender and k - floor(k/2) of the other.
C4_ZeroScoreIffFreshAndBalanced ==
    pc = "loop" =>
      \A shuffled_people \in Shuffles(people) :
        LET groups == SliceGroups(shuffled_people, num_groups, group_size)
        IN  (TotalScore(previous_meetings, groups, group_size) = 0)
            <=> \A g \in 1..Len(groups) :
                  /\ \A a, b \in Members(groups[g]) :
                       a < b => <<a, b>> \notin previous_meetings
                  /\ Cardinality({ i \in 1..Len(groups[g]) :
                                     groups[g][i].gender = "M" })
                       = group_size \div 2
                  /\ Cardinality({ i \in 1..Len(groups[g]) :
                                     groups[g][i].gender # "M" })
                       = group_size - (group_size \div 2)

\* C4 witness: on a ledger that already holds pairs, the search has found a
\* candidate of score 0.
C4_Witness ==
    /\ pc = "exit"
    /\ previous_meetings # {}
    /\ best_score = Some(0)
    /\ best_groups # None
    /\ Len(Head(best_groups)) > 0

\* C5: constructing the analyzer with k < 2 or with N mod k # 0 fails with the
\* analyzer's configuration error, the same kind in all these cases.
C5_AnalyzerRejectsBadArguments ==
    (/\ analyzer # None
     /\ \/ analyzer_group_size < 2
        \/ total_people % analyzer_group_size # 0)
        => Head(analyzer).status = "ValueError"

\* the numbers the analyzer has to yield for N and k
LimitsAreRight(a, N, k) ==
    /\ a.status = "ok"
    /\ a.num_groups = N \div k
    /\ a.total_pairs = (N * (N - 1)) \div 2
    /\ a.pairs_per_group = (k * (k - 1)) \div 2
    /\ a.pairs_per_round = (N \div k) * ((k * (k - 1)) \div 2)
    /\ a.max_practical_rounds
         = ((N * (N - 1)) \div 2) \div ((N \div k) * ((k * (k - 1)) \div 2))
    /\ (N = 50 /\ k = 10)
         => /\ a.num_groups = 5
            /\ a.total_pairs = 1225
            /\ a.pairs_per_group = 45
            /\ a.pairs_per_round = 225
            /\ a.max_practical_rounds = 5
    /\ (N = 6 /\ k = 2)
         => /\ a.total_pairs = 15
            /\ a.pairs_per_group = 1
            /\ a.pairs_per_round = 3
            /\ a.max_practical_rounds = 5

SessionAnalyzer == SocialGroupingAnalyzer(Len(people), group_size)

StatisticsRemaining(least_round) ==
    (/\ stats # None
     /\ current_round >= least_round
     /\ SessionAnalyzer.status = "ok")
        => LET M == SessionAnalyzer.max_practical_rounds
           IN  /\ Head(stats).status = "ok"
               /\ Head(stats).remaining
                    = Some(IF M - current_round > 0 THEN M - current_round ELSE 0)
               /\ Head(stats).remaining # None
               /\ Head(Head(stats).remaining) >= 0
               /\ current_round >= M => Head(stats).remaining = Some(0)

\* C7 as stated: after any number of rounds, the rounds remaining that the
\* statistics report are max(0, M - round_counter), M the analyzer's
\* max_rounds_practical for the session's N and k; never negative, and 0 once
\* round_counter >= M.
C7_RemainingAfterAnyNumberOfRounds == StatisticsRemaining(0)

\* C7 amended: the same once at least one round was started
\* (round_counter >= 1); with round_counter = 0 no value is reported.
C7_RemainingAfterFirstRound == StatisticsRemaining(1)

\* C7 witness: statistics were shown with more rounds started than M.
C7_Witness ==
    /\ stats # None
    /\ SessionAnalyzer.status = "ok"
    /\ current_round > SessionAnalyzer.max_practical_rounds
    /\ Head(stats).remaining = Some(0)

SearchIsBounded ==
    /\ iteration <= max_iterations
    /\ ~late_sample
    /\ pc = "exit" => (iteration = max_iterations \/ min_sampled = Some(0))

ReturnsTheBestSampled ==
    /\ best_groups # None
    /\ best_score # None
    /\ best_score = min_sampled
    /\ TotalScore(previous_meetings, Head(best_groups), group_size)
         = Head(min_sampled)

\* C8 as stated: the search with budget I samples at most I candidates, none
\* after a candidate of score 0, and always returns a partition, of the least
\* score among the candidates sampled.
C8_SearchAlwaysReturnsBest ==
    /\ SearchIsBounded
    /\ pc = "exit" => ReturnsTheBestSampled

\* C8 amended: the same for every budget I >= 1 (with I <= 0 no candidate is
\* sampled and the search returns no partition).
C8_SearchWithPositiveBudgetReturnsBest ==
    /\ SearchIsBounded
    /\ (pc = "exit" /\ max_iterations >= 1) => ReturnsTheBestSampled
    /\ (pc = "exit" /\ max_iterations < 1) => (best_groups = None /\ iteration = 0)

\* C8 witness: on a ledger that holds pairs, the budget of at least two
\* candidates is used up and no candidate of score 0 was seen.
C8_Witness ==
    /\ pc = "exit"
    /\ previous_meetings # {}
    /\ max_iterations >= 2
    /\ iteration = max_iterations
    /\ min_sampled # None
    /\ Head(min_sampled) > 0

\* C9: whenever no create_new_round is in progress the round counter is the
\* number of rounds in the history (a round that fails before its commit
\* leaves it unchanged), and the round numbers the export writes are the
\* counter values at the commits.
C9_CounterIsHistoryLength ==
    pc = "idle" =>
      /\ current_round = Len(round_history)
      /\ \A r \in 1..Len(round_history) :
           save_history.rounds[r].round = printed[r].round

\* the number of committed rounds among the first n whose repeat count was 0
FreshRounds(n) == Cardinality({ r \in 1..n : printed[r].previous = 0 })

====
